---- MODULE Spec2Model ----
(***************************************************************************)
(* Model of openvdb::io::Queue (src/openvdb/io/Queue.cc): the bounded,     *)
(* asynchronous output queue, its status map, its notifier map and the     *)
(* tasks it hands to the execution backend.  Both builds are modelled:     *)
(* with OPENVDB_USE_TBB tasks run on the scheduler's worker threads,       *)
(* without it Impl::enqueue calls task.execute() on the caller's thread.   *)
(***************************************************************************)
EXTENDS Integers, Sequences, FiniteSets, TLC

\* ---------------------------------------------------------------- bounds
\* Number of writeGridVec calls the clients make in one run.
MaxTasks == 2
\* Number of addNotifier calls the clients make in one run.
MaxSubs == 2

\* Client threads that call the queue's methods.
Threads == {1, 2}
\* Arguments the clients pass to Queue(capacity).
CapacityArgs == {0, 1, 2}
\* Arguments the clients pass to setTimeout(sec), in seconds.
TimeoutArgs == {0, 1}
\* Duration of one sleep_for(500 ms), in half seconds: sleep_for blocks for
\* at least the requested time, a late wake-up takes a second half second.
SleepTicks == {1, 2}

TaskIds == 1 .. MaxTasks
SubIds == 1 .. MaxSubs
\* How mArchive->write(mGrids, mMetadata) ends: it returns, it throws a
\* std::exception, or it throws a value of another type.
WriteOutcomes == {"returned", "std_exception", "other_throw"}

\* ------------------------------------------------------------ Queue::Status
Terminal == {"SUCCEEDED", "FAILED"}
\* "NONE" marks a key that is not in the map; UNKNOWN is never stored.
Stored == {"NONE", "PENDING", "SUCCEEDED", "FAILED"}

VARIABLES
    useTBB,           \* OPENVDB_USE_TBB: TRUE the parallel build, FALSE the fallback
    mTimeout,         \* Impl::mTimeout, seconds
    mCapacity,        \* Impl::mCapacity
    mNumTasks,        \* Impl::mNumTasks (std::atomic<Int32>)
    mNextId,          \* Impl::mNextId (plain Index32)
    mStatus,          \* Impl::mStatus: task id -> stored status
    mNotifiers,       \* Impl::mNotifiers: the keys of the std::map
    mNextNotifierId,  \* Impl::mNextNotifierId
    mNotifierMutex,   \* Impl::mNotifierMutex: 0 free, k held by task k's fan-out
    tasks,            \* the OutputTask objects constructed so far
    pc,               \* each client thread's position
    taskId,           \* writeGridVec's local taskId
    cur,              \* the task the thread's writeGridVec constructed
    ticks,            \* half seconds since enqueue's start time_point
    grids,            \* writeGridVec's argument: the number of grids in the batch
    pollId,           \* status(): the id asked for
    pollVal,          \* status(): the local copy of acc->second
    accValid,         \* status(): acc still refers to the element of the map
    pollSeen,         \* history: tasks of that id whose terminal status was written when the call began
    removed           \* history: subscriptions whose removal has returned

vars == << useTBB, mTimeout, mCapacity, mNumTasks, mNextId, mStatus, mNotifiers,
           mNextNotifierId, mNotifierMutex, tasks, pc, taskId, cur, ticks, grids,
           pollId, pollVal, accValid, pollSeen, removed >>

Slots == 1 .. Len(tasks)

Max(a, b) == IF a >= b THEN a ELSE b

\* ---------------------------------------------------------------- Task
\* OutputTask(id, grids, ...): Task::mId, mGrids (the number of grids it
\* holds), and the queue has not yet bound mNotify.
NewTask(id, n) ==
    [ id        |-> id,
      mGrids    |-> n,
      pc        |-> "constructed",
      outcome   |-> "none",
      status    |-> "FAILED",
      completed |-> FALSE,
      didNotify |-> FALSE,
      it        |-> 0,
      frame     |-> 0,
      snap      |-> {},
      inv       |-> << >>,
      fired     |-> 0,
      nTerm     |-> 0,
      polled    |-> FALSE ]

\* OutputTask::execute: status starts FAILED and becomes SUCCEEDED only when
\* mArchive->write returned; both catch clauses leave FAILED.
ExecuteStatus_pending(outcome) ==
    IF outcome = "returned" THEN "SUCCEEDED" ELSE "PENDING"
ExecuteStatus_uncaught(outcome) ==
    IF outcome = "std_exception" THEN "FAILED" ELSE "SUCCEEDED"
ExecuteStatus(outcome) ==
    IF outcome = "returned" THEN "SUCCEEDED" ELSE "FAILED"

\* setStatusWithNotification: const bool completed.
Completed(status) == status = "SUCCEEDED" \/ status = "FAILED"

\* -------------------------------------------------------------- status map
\* Threads between status()'s find and its erase whose accessor (iterator)
\* still refers to the element of key id.
Holders(id) == { t \in Threads : pc[t] = "statusFound" /\ pollId[t] = id /\ accValid[t] }

\* tbb::concurrent_hash_map: an accessor (write lock on the element) waits
\* while a const_accessor holds the element.  The std::unordered_map of the
\* fallback build is guarded by mStatusMutex, which status() does not take.
CanWrite(id) == useTBB => Holders(id) = {}

\* Accessors left valid by a write of key id made by someone other than self.
\* Fallback build: inserting a new key may rehash and invalidates every
\* iterator; an assignment to an existing key invalidates none.
ValidAfterAssign(id) ==
    [ t \in Threads |->
        IF ~useTBB /\ mStatus[id] = "NONE" THEN FALSE ELSE accValid[t] ]

\* Accessors left valid once key id has been erased by self (a thread, or 0
\* for a completion handler).
ValidAfterErase(id, self) ==
    [ t \in Threads |->
        IF t # self /\ pollId[t] = id THEN FALSE ELSE accValid[t] ]

\* ------------------------------------------------------- Queue::Impl helpers
\* Impl::canEnqueue
canEnqueue_offByOne == mNumTasks + 1 < mCapacity
canEnqueue_lenient == mNumTasks <= mCapacity
canEnqueue == mNumTasks < mCapacity

\* duration_cast<seconds>(now - start).count(): whole seconds, truncated.
ElapsedSeconds(h) == h \div 2

\* Queue::size, Queue::empty
size == Max(0, mNumTasks)
empty == mNumTasks = 0

\* The iteration of setStatusWithNotification over mNotifiers: std::map
\* iterates in ascending key order; it is the key last visited (0: begin()).
NextNotifier_descending(m, it) ==
    LET visited == IF it = 0 THEN {} ELSE { s \in m : s >= it }
        rest    == m \ visited
    IN  IF rest = {} THEN 0 ELSE CHOOSE s \in rest : \A r \in rest : r <= s
NextNotifier(m, it) ==
    LET rest == { s \in m : s > it }
    IN  IF rest = {} THEN 0 ELSE CHOOSE s \in rest : \A r \in rest : s <= r

\* Queue::removeNotifier: find, then erase when found.
EraseNotifier_upTo(m, id) == { s \in m : s > id }
EraseNotifier_none(m, id) == m
EraseNotifier(m, id) == m \ {id}

SomeIdle == \E t \in Threads : pc[t] = "idle"

\* Thread t is free to make a call.  Idle threads hold no local state and are
\* interchangeable, so of several idle threads the first makes the call.
Ready(t) == pc[t] = "idle" /\ \A u \in Threads : u < t => pc[u] # "idle"

\* ------------------------------------------------------------------- Init
\* Queue(capacity) after construction: mCapacity is the argument as given,
\* mNextId = mNextNotifierId = 1, mNumTasks = 0, both maps empty.  The
\* client has replaced DEFAULT_TIMEOUT with setTimeout(sec) before it
\* starts to use the queue.
Init ==
    /\ useTBB \in BOOLEAN
    /\ mTimeout \in TimeoutArgs
    /\ mCapacity \in CapacityArgs
    /\ mNumTasks = 0
    /\ mNextId = 1
    /\ mStatus = [ i \in TaskIds |-> "NONE" ]
    /\ mNotifiers = {}
    /\ mNextNotifierId = 1
    /\ mNotifierMutex = 0
    /\ tasks = << >>
    /\ pc = [ t \in Threads |-> "idle" ]
    /\ taskId = [ t \in Threads |-> 0 ]
    /\ cur = [ t \in Threads |-> 0 ]
    /\ ticks = [ t \in Threads |-> 0 ]
    /\ grids = [ t \in Threads |-> 0 ]
    /\ pollId = [ t \in Threads |-> 0 ]
    /\ pollVal = [ t \in Threads |-> "NONE" ]
    /\ accValid = [ t \in Threads |-> FALSE ]
    /\ pollSeen = [ t \in Threads |-> {} ]
    /\ removed = {}

clientVars == << pc, taskId, cur, ticks, grids >>
pollVars == << pollId, pollVal, accValid, pollSeen >>
notifierVars == << mNotifiers, mNextNotifierId, mNotifierMutex, removed >>
configVars == << useTBB, mTimeout, mCapacity >>

\* ------------------------------------------------------ Queue::writeGridVec
\* const Queue::Id taskId = mImpl->mNextId++;  mNextId is a plain Index32,
\* so the increment is a read followed by a write.
WriteGridVec_ReadId(t, n) ==
    /\ Ready(t)
    /\ grids' = [grids EXCEPT ![t] = n]
    /\ Len(tasks) + Cardinality({ u \in Threads : pc[u] = "incId" }) < MaxTasks
    /\ mNextId <= MaxTasks
    /\ taskId' = [taskId EXCEPT ![t] = mNextId]
    /\ pc' = [pc EXCEPT ![t] = "incId"]
    /\ UNCHANGED << mNumTasks, mNextId, mStatus, tasks, cur, ticks >>
    /\ UNCHANGED << pollVars, notifierVars, configVars >>

\* Queue::writeGrid(grid, ...): writeGridVec(GridCPtrVec(1, grid), ...).
WriteGrid(t) == WriteGridVec_ReadId(t, 1)

\* (WriteGridVec_IncId taking one identifier for each grid of the batch.)
WriteGridVec_IncId_perGrid(t) ==
    /\ pc[t] = "incId"
    /\ mNextId' = taskId[t] + grids[t]
    /\ tasks' = Append(tasks, NewTask(taskId[t], grids[t]))
    /\ cur' = [cur EXCEPT ![t] = Len(tasks) + 1]
    /\ ticks' = [ticks EXCEPT ![t] = 0]
    /\ pc' = [pc EXCEPT ![t] = "check"]
    /\ UNCHANGED << mNumTasks, mStatus, taskId, grids >>
    /\ UNCHANGED << pollVars, notifierVars, configVars >>

\* The write half of mNextId++, then new(taskMem) OutputTask(taskId, grids,
\* ...), one task whatever the size of grids, and the entry into
\* Impl::enqueue (start = now()).
WriteGridVec_IncId(t) ==
    /\ pc[t] = "incId"
    /\ mNextId' = taskId[t] + 1
    /\ tasks' = Append(tasks, NewTask(taskId[t], grids[t]))
    /\ cur' = [cur EXCEPT ![t] = Len(tasks) + 1]
    /\ ticks' = [ticks EXCEPT ![t] = 0]
    /\ pc' = [pc EXCEPT ![t] = "check"]
    /\ UNCHANGED << mNumTasks, mStatus, taskId, grids >>
    /\ UNCHANGED << pollVars, notifierVars, configVars >>

\* --------------------------------------------------------- Impl::enqueue
\* The first evaluation of while (!canEnqueue()).
Enqueue_Check(t) ==
    /\ pc[t] = "check"
    /\ pc' = [pc EXCEPT ![t] = IF canEnqueue THEN "setup" ELSE "sleep"]
    /\ UNCHANGED << mNumTasks, mNextId, mStatus, tasks, taskId, cur, ticks, grids >>
    /\ UNCHANGED << pollVars, notifierVars, configVars >>

\* (Enqueue_Poll with a failure path that gives back a unit of capacity the
\* call never took.)
Enqueue_Poll_givesBack(t) ==
    /\ pc[t] = "sleep"
    /\ \E d \in SleepTicks :
        IF ElapsedSeconds(ticks[t] + d) > mTimeout
           THEN /\ tasks' = [tasks EXCEPT ![cur[t]].pc = "destroyed"]
                /\ pc' = [pc EXCEPT ![t] = "idle"]
                /\ cur' = [cur EXCEPT ![t] = 0]
                /\ taskId' = [taskId EXCEPT ![t] = 0]
                /\ ticks' = [ticks EXCEPT ![t] = 0]
                /\ grids' = [grids EXCEPT ![t] = 0]
                /\ mNumTasks' = mNumTasks - 1
           ELSE /\ pc' = [pc EXCEPT ![t] = IF canEnqueue THEN "setup" ELSE "sleep"]
                /\ ticks' = [ticks EXCEPT ![t] = ticks[t] + d]
                /\ UNCHANGED << tasks, cur, taskId, grids, mNumTasks >>
    /\ UNCHANGED << mNextId, mStatus >>
    /\ UNCHANGED << pollVars, notifierVars, configVars >>

\* One turn of the loop: sleep_for(500 ms); then the time limit, whose
\* OPENVDB_THROW(RuntimeError) leaves enqueue (writeGridVec destroys the
\* task and rethrows); then the loop's next evaluation of canEnqueue().
Enqueue_Poll(t) ==
    /\ pc[t] = "sleep"
    /\ \E d \in SleepTicks :
        IF ElapsedSeconds(ticks[t] + d) > mTimeout
           THEN /\ tasks' = [tasks EXCEPT ![cur[t]].pc = "destroyed"]
                /\ pc' = [pc EXCEPT ![t] = "idle"]
                /\ cur' = [cur EXCEPT ![t] = 0]
                /\ taskId' = [taskId EXCEPT ![t] = 0]
                /\ ticks' = [ticks EXCEPT ![t] = 0]
                /\ grids' = [grids EXCEPT ![t] = 0]
           ELSE /\ pc' = [pc EXCEPT ![t] = IF canEnqueue THEN "setup" ELSE "sleep"]
                /\ ticks' = [ticks EXCEPT ![t] = ticks[t] + d]
                /\ UNCHANGED << tasks, cur, taskId, grids >>
    /\ UNCHANGED << mNumTasks, mNextId, mStatus >>
    /\ UNCHANGED << pollVars, notifierVars, configVars >>

\* task.setNotifier(notify); this->setStatus(task.id(), Queue::PENDING);
\* then tbb::task::enqueue(task): the task is the scheduler's from here on.
\* Fallback build: task.execute() runs on this thread, which goes on to
\* ++mNumTasks when execute has returned.
Enqueue_Admit(t) ==
    /\ pc[t] = "setup"
    /\ CanWrite(tasks[cur[t]].id)
    /\ mStatus' = [mStatus EXCEPT ![tasks[cur[t]].id] = "PENDING"]
    /\ accValid' = ValidAfterAssign(tasks[cur[t]].id)
    /\ tasks' = [tasks EXCEPT ![cur[t]].pc = "queued"]
    /\ pc' = [pc EXCEPT ![t] = IF useTBB THEN "incr" ELSE "executing"]
    /\ ticks' = [ticks EXCEPT ![t] = 0]
    /\ UNCHANGED << mNumTasks, mNextId, taskId, cur, grids >>
    /\ UNCHANGED << pollId, pollVal, pollSeen >>
    /\ UNCHANGED << notifierVars, configVars >>

\* ++mNumTasks; and writeGridVec returns taskId.
Enqueue_Increment(t) ==
    /\ pc[t] = "incr"
    /\ mNumTasks' = mNumTasks + 1
    /\ pc' = [pc EXCEPT ![t] = "idle"]
    /\ cur' = [cur EXCEPT ![t] = 0]
    /\ taskId' = [taskId EXCEPT ![t] = 0]
    /\ grids' = [grids EXCEPT ![t] = 0]
    /\ UNCHANGED << mNextId, mStatus, tasks, ticks >>
    /\ UNCHANGED << pollVars, notifierVars, configVars >>

\* ------------------------------------------------- OutputTask::execute
\* execute() up to the first write of shared state: mArchive->write returns
\* or throws, then notify(status) calls the bound mNotify, which is
\* Impl::setStatusWithNotification: completed is computed and
\* setStatus(id, status) stores the status.
Task_Execute(k) ==
    /\ tasks[k].pc = "queued"
    /\ CanWrite(tasks[k].id)
    /\ \E outcome \in WriteOutcomes :
        LET st == ExecuteStatus(outcome) IN
        /\ tasks' = [tasks EXCEPT ![k].outcome = outcome,
                                  ![k].status = st,
                                  ![k].completed = Completed(st),
                                  ![k].fired = @ + 1,
                                  ![k].nTerm = @ + (IF st \in Terminal THEN 1 ELSE 0),
                                  ![k].pc = "statusSet"]
        /\ mStatus' = [mStatus EXCEPT ![tasks[k].id] = st]
    /\ accValid' = ValidAfterAssign(tasks[k].id)
    /\ UNCHANGED << mNumTasks, mNextId, clientVars >>
    /\ UNCHANGED << pollId, pollVal, pollSeen >>
    /\ UNCHANGED << notifierVars, configVars >>

\* Lock lock(mNotifierMutex) by the thread that runs task caller's handler.
\* Mutex is std::mutex, which is not recursive: the thread that owns it
\* cannot take it again.
CanLock_unguarded(caller) == TRUE
CanLock_recursive(caller) == mNotifierMutex \in {0, caller}
CanLock(caller) == mNotifierMutex = 0

\* Lock lock(mNotifierMutex); if (!mNotifiers.empty()) { didNotify = true;
\* it = mNotifiers.begin(); ... }.  With an empty map the block does nothing
\* more and the Lock is released at once.
Task_Lock(k) ==
    /\ tasks[k].pc = "statusSet"
    /\ CanLock(k)
    /\ IF mNotifiers # {}
          THEN /\ mNotifierMutex' = k
               /\ tasks' = [tasks EXCEPT ![k].didNotify = TRUE,
                                         ![k].snap = mNotifiers,
                                         ![k].it = 0,
                                         ![k].pc = "locked"]
          ELSE /\ mNotifierMutex' = 0
               /\ tasks' = [tasks EXCEPT ![k].pc = "unlocked",
                                         ![k].outcome = "none"]
    /\ UNCHANGED << mNumTasks, mNextId, mStatus, clientVars, pollVars >>
    /\ UNCHANGED << mNotifiers, mNextNotifierId, removed, configVars >>

\* it->second(id, status): the observer of key s is entered (the previous
\* one, if any, has returned and ++it has been done).  Observers are client
\* functions; here they return without calling back into the queue.
Task_Invoke(k) ==
    /\ tasks[k].pc = "locked"
    /\ NextNotifier(mNotifiers, tasks[k].it) # 0
    /\ LET s == NextNotifier(mNotifiers, tasks[k].it) IN
        tasks' = [tasks EXCEPT ![k].inv = Append(@, << s, tasks[k].status >>),
                               ![k].it = s]
    /\ UNCHANGED << mNumTasks, mNextId, mStatus, clientVars, pollVars >>
    /\ UNCHANGED << notifierVars, configVars >>

\* The last observer has returned and it == mNotifiers.end(): the loop ends
\* and the Lock goes out of scope (the record of the iteration and of how the
\* write ended, a history of the block, ends with it).
Task_Unlock(k) ==
    /\ tasks[k].pc = "locked"
    /\ NextNotifier(mNotifiers, tasks[k].it) = 0
    /\ mNotifierMutex' = 0
    /\ tasks' = [tasks EXCEPT ![k].pc = "unlocked", ![k].it = 0,
                              ![k].snap = {}, ![k].inv = << >>,
                              ![k].outcome = "none"]
    /\ UNCHANGED << mNumTasks, mNextId, mStatus, clientVars, pollVars >>
    /\ UNCHANGED << mNotifiers, mNextNotifierId, removed, configVars >>

\* (Task_Erase emptying the whole status map.)
Task_Erase_clearsMap(k) ==
    /\ tasks[k].pc = "unlocked"
    /\ tasks[k].completed /\ tasks[k].didNotify
    /\ CanWrite(tasks[k].id)
    /\ mStatus' = [ i \in TaskIds |-> "NONE" ]
    /\ accValid' = [ t \in Threads |-> FALSE ]
    /\ tasks' = [tasks EXCEPT ![k].pc = "erased"]
    /\ UNCHANGED << mNumTasks, mNextId, clientVars >>
    /\ UNCHANGED << pollId, pollVal, pollSeen >>
    /\ UNCHANGED << notifierVars, configVars >>

\* if (completed) { if (didNotify) { erase the task's entry } ... }
Task_Erase(k) ==
    /\ tasks[k].pc = "unlocked"
    /\ tasks[k].completed /\ tasks[k].didNotify
    /\ CanWrite(tasks[k].id)
    /\ mStatus' = [mStatus EXCEPT ![tasks[k].id] = "NONE"]
    /\ accValid' = IF mStatus[tasks[k].id] = "NONE" THEN accValid
                   ELSE ValidAfterErase(tasks[k].id, 0)
    /\ tasks' = [tasks EXCEPT ![k].pc = "erased"]
    /\ UNCHANGED << mNumTasks, mNextId, clientVars >>
    /\ UNCHANGED << pollId, pollVal, pollSeen >>
    /\ UNCHANGED << notifierVars, configVars >>

\* if (completed) { ... --mNumTasks; } and the return from execute(); in the
\* fallback build the caller of task.execute() resumes in Impl::enqueue.
Task_Decrement(k) ==
    /\ \/ tasks[k].pc = "erased"
       \/ tasks[k].pc = "unlocked" /\ ~(tasks[k].completed /\ tasks[k].didNotify)
    /\ mNumTasks' = IF tasks[k].completed THEN mNumTasks - 1 ELSE mNumTasks
    /\ tasks' = [tasks EXCEPT ![k].pc = "done"]
    /\ pc' = IF useTBB THEN pc
             ELSE [ t \in Threads |-> IF cur[t] = k THEN "incr" ELSE pc[t] ]
    /\ UNCHANGED << mNextId, mStatus, taskId, cur, ticks, grids >>
    /\ UNCHANGED << pollVars, notifierVars, configVars >>

\* ----------------------------------------------------------- Queue::status
\* What status(id) answers from the value its find sees.
StatusAnswer_pendingDefault(v) == IF v = "NONE" THEN "PENDING" ELSE v
StatusAnswer(v) == IF v = "NONE" THEN "UNKNOWN" ELSE v

\* status() takes neither mNotifierMutex nor mStatusMutex.  With TBB its
\* const_accessor waits only for the accessor of a setStatus or an erase in
\* progress, which that call releases before it does anything else (each is
\* a single step here), so the find can always proceed.
CanRead_underNotifierGuard(id) == mNotifierMutex = 0
CanRead(id) == TRUE

\* Tasks of this id whose terminal status was already stored.
Written(id) == { k \in Slots : tasks[k].id = id /\ tasks[k].nTerm > 0 }

CountPoll(ks) ==
    [ k \in Slots |-> IF k \in ks THEN [tasks[k] EXCEPT !.polled = TRUE] ELSE tasks[k] ]

\* mStatus.find(acc, id) and status = acc->second.  No entry: the call is
\* about to return UNKNOWN.  PENDING: about to return it.  SUCCEEDED or
\* FAILED: go on to erase(acc).
Status_Find(t, id) ==
    /\ Ready(t)
    /\ CanRead(id)
    /\ pollId' = [pollId EXCEPT ![t] = id]
    /\ IF mStatus[id] \in Terminal
          THEN /\ pc' = [pc EXCEPT ![t] = "statusFound"]
               /\ pollVal' = [pollVal EXCEPT ![t] = mStatus[id]]
               /\ accValid' = [accValid EXCEPT ![t] = TRUE]
               /\ pollSeen' = [pollSeen EXCEPT ![t] = Written(id)]
               /\ UNCHANGED tasks
          ELSE /\ pc' = [pc EXCEPT ![t] = "statusReturn"]
               /\ pollVal' = [pollVal EXCEPT ![t] = StatusAnswer(mStatus[id])]
               /\ tasks' = CountPoll(Written(id))
               /\ UNCHANGED << accValid, pollSeen >>
    /\ UNCHANGED << mNumTasks, mNextId, mStatus, taskId, cur, ticks, grids >>
    /\ UNCHANGED << notifierVars, configVars >>

\* return status (PENDING), or return UNKNOWN: the caller has its answer.
Status_Return(t) ==
    /\ pc[t] = "statusReturn"
    /\ pc' = [pc EXCEPT ![t] = "idle"]
    /\ pollId' = [pollId EXCEPT ![t] = 0]
    /\ pollVal' = [pollVal EXCEPT ![t] = "NONE"]
    /\ UNCHANGED << mNumTasks, mNextId, mStatus, tasks, taskId, cur, ticks, grids >>
    /\ UNCHANGED << accValid, pollSeen, notifierVars, configVars >>

\* mImpl->mStatus.erase(acc); return status.  With TBB, erase(const_accessor)
\* removes the element unless another reader removed it first.  Without TBB
\* acc is an unguarded iterator: once another thread has changed the map it
\* is invalid and erase(acc) is undefined (the element goes or stays).
Status_Erase(t) ==
    /\ pc[t] = "statusFound"
    /\ \E gone \in BOOLEAN :
        /\ accValid[t] => gone
        /\ (useTBB /\ ~accValid[t]) => ~gone
        /\ IF gone
              THEN /\ mStatus' = [mStatus EXCEPT ![pollId[t]] = "NONE"]
                   /\ accValid' = [ValidAfterErase(pollId[t], t) EXCEPT ![t] = FALSE]
              ELSE /\ UNCHANGED mStatus
                   /\ accValid' = [accValid EXCEPT ![t] = FALSE]
    /\ tasks' = CountPoll(pollSeen[t])
    /\ pc' = [pc EXCEPT ![t] = "idle"]
    /\ pollId' = [pollId EXCEPT ![t] = 0]
    /\ pollVal' = [pollVal EXCEPT ![t] = "NONE"]
    /\ pollSeen' = [pollSeen EXCEPT ![t] = {}]
    /\ UNCHANGED << mNumTasks, mNextId, taskId, cur, ticks, grids >>
    /\ UNCHANGED << notifierVars, configVars >>

\* An observer that is running (it->second(id, status) has not returned)
\* calls status(id) on the thread of the fan-out, which holds mNotifierMutex.
\* The call is one step here; what other threads can do between its find
\* and its erase is what Status_Find and Status_Erase show for a client.
Observer_Status(k, id) ==
    /\ tasks[k].pc = "locked"
    /\ tasks[k].it # 0
    /\ CanRead(id)
    /\ IF mStatus[id] \in Terminal
          THEN /\ mStatus' = [mStatus EXCEPT ![id] = "NONE"]
               /\ accValid' = ValidAfterErase(id, 0)
          ELSE UNCHANGED << mStatus, accValid >>
    /\ tasks' = CountPoll(Written(id))
    /\ UNCHANGED << mNumTasks, mNextId, clientVars >>
    /\ UNCHANGED << pollId, pollVal, pollSeen >>
    /\ UNCHANGED << notifierVars, configVars >>

\* ------------------------------------------------------ notifier registry
\* (AddNotifier handing out the lowest identifier that is not registered.)
AddNotifier_lowestFree ==
    /\ SomeIdle
    /\ mNotifierMutex = 0
    /\ mNextNotifierId <= MaxSubs
    /\ mNotifiers' = mNotifiers \cup
            { CHOOSE s \in SubIds \ mNotifiers : \A r \in SubIds \ mNotifiers : s <= r }
    /\ mNextNotifierId' = mNextNotifierId + 1
    /\ UNCHANGED << mNumTasks, mNextId, mStatus, tasks, clientVars, pollVars >>
    /\ UNCHANGED << mNotifierMutex, removed, configVars >>

\* Queue::addNotifier, under mNotifierMutex.
AddNotifier ==
    /\ SomeIdle
    /\ mNotifierMutex = 0
    /\ mNextNotifierId <= MaxSubs
    /\ mNotifiers' = mNotifiers \cup {mNextNotifierId}
    /\ mNextNotifierId' = mNextNotifierId + 1
    /\ UNCHANGED << mNumTasks, mNextId, mStatus, tasks, clientVars, pollVars >>
    /\ UNCHANGED << mNotifierMutex, removed, configVars >>

\* Queue::removeNotifier, under mNotifierMutex.
RemoveNotifier(id) ==
    /\ SomeIdle
    /\ mNotifierMutex = 0
    /\ mNotifiers' = EraseNotifier(mNotifiers, id)
    /\ removed' = removed \cup ({id} \cap mNotifiers)
    /\ UNCHANGED << mNumTasks, mNextId, mStatus, tasks, clientVars, pollVars >>
    /\ UNCHANGED << mNextNotifierId, mNotifierMutex, configVars >>

\* Queue::clearNotifiers, under mNotifierMutex.
ClearNotifiers ==
    /\ SomeIdle
    /\ mNotifierMutex = 0
    /\ mNotifiers' = {}
    /\ removed' = removed \cup mNotifiers
    /\ UNCHANGED << mNumTasks, mNextId, mStatus, tasks, clientVars, pollVars >>
    /\ UNCHANGED << mNextNotifierId, mNotifierMutex, configVars >>

\* ------------------------------------------- calls made by a running observer
NestedOps == { "addNotifier", "removeNotifier", "clearNotifiers" }

\* An observer that is running (it->second(id, status) has not returned)
\* calls addNotifier, removeNotifier (of its own subscription) or
\* clearNotifiers.  Each begins with Lock lock(mNotifierMutex), on the thread
\* of the fan-out, which holds that mutex: the call blocks in the
\* constructor of its Lock ("the result will be a deadlock").
Observer_Nested(k, op) ==
    /\ tasks[k].pc = "locked"
    /\ tasks[k].it # 0
    /\ op = "addNotifier" => mNextNotifierId <= MaxSubs
    /\ IF CanLock(k)
          THEN /\ mNotifiers' = CASE op = "addNotifier" -> mNotifiers \cup {mNextNotifierId}
                                  [] op = "removeNotifier" -> EraseNotifier(mNotifiers, tasks[k].it)
                                  [] op = "clearNotifiers" -> {}
               /\ mNextNotifierId' = IF op = "addNotifier" THEN mNextNotifierId + 1
                                     ELSE mNextNotifierId
               /\ removed' = removed \cup (mNotifiers \ mNotifiers')
               /\ UNCHANGED tasks
          ELSE /\ tasks' = [tasks EXCEPT ![k].pc = "nested"]
               /\ UNCHANGED << mNotifiers, mNextNotifierId, removed >>
    /\ UNCHANGED << mNumTasks, mNextId, mStatus, clientVars, pollVars >>
    /\ UNCHANGED << mNotifierMutex, configVars >>

\* Thread t is not the call frame of a submission made by an observer.
Free(t) == \A k \in Slots : tasks[k].frame # t

\* An observer that is running calls writeGrid.  The call runs on the thread
\* of the fan-out, inside it->second(id, status); its frame (taskId, the
\* task, the start time) is kept in the so far unused slot t.  The call
\* begins with the read half of mNextId++.
Observer_Submit(k, t) ==
    /\ tasks[k].pc = "locked"
    /\ tasks[k].it # 0
    /\ pc[t] = "idle"
    /\ Free(t)
    /\ Len(tasks) + Cardinality({ u \in Threads : pc[u] = "incId" }) < MaxTasks
    /\ mNextId <= MaxTasks
    /\ tasks' = [tasks EXCEPT ![k].pc = "submitting", ![k].frame = t]
    /\ taskId' = [taskId EXCEPT ![t] = mNextId]
    /\ grids' = [grids EXCEPT ![t] = 1]
    /\ pc' = [pc EXCEPT ![t] = "incId"]
    /\ UNCHANGED << mNumTasks, mNextId, mStatus, cur, ticks >>
    /\ UNCHANGED << pollVars, notifierVars, configVars >>

\* The observer's writeGrid has returned its identifier, or has thrown the
\* time-limit error, which the observer catches: the observer goes on and
\* the fan-out with it.
Observer_SubmitReturn(k) ==
    /\ tasks[k].pc = "submitting"
    /\ pc[tasks[k].frame] = "idle"
    /\ tasks' = [tasks EXCEPT ![k].pc = "locked", ![k].frame = 0]
    /\ UNCHANGED << mNumTasks, mNextId, mStatus, clientVars, pollVars >>
    /\ UNCHANGED << notifierVars, configVars >>

\* ---------------------------------------------------------- Queue::~Queue
\* while (mImpl->mNumTasks > 0)
DtorWaits_untilNegative == mNumTasks >= 0
DtorWaits_offByOne == mNumTasks > 1
DtorWaits == mNumTasks > 0

\* The queue exists: its destructor has not been called.
Alive == \A t \in Threads : pc[t] \notin {"dtorWait", "dtorDone"}

\* The owner destroys the queue.  No other call on the queue is in progress
\* (a call that overlaps the destruction of its object is the client's
\* error); tasks admitted earlier may still be queued or running.
Dtor_Enter(t) ==
    /\ Ready(t)
    /\ \A u \in Threads : pc[u] = "idle"
    /\ pc' = [pc EXCEPT ![t] = "dtorWait"]
    /\ UNCHANGED << mNumTasks, mNextId, mStatus, tasks, taskId, cur, ticks, grids >>
    /\ UNCHANGED << pollVars, notifierVars, configVars >>

\* One evaluation of the loop condition after which the loop ends and the
\* destructor returns; while it is true the destructor sleeps 500 ms and
\* evaluates it again.
Dtor_Return(t) ==
    /\ pc[t] = "dtorWait"
    /\ ~DtorWaits
    /\ pc' = [pc EXCEPT ![t] = "dtorDone"]
    /\ UNCHANGED << mNumTasks, mNextId, mStatus, tasks, taskId, cur, ticks, grids >>
    /\ UNCHANGED << pollVars, notifierVars, configVars >>

\* ------------------------------------------------------------ configuration
\* The client changes the configuration between batches of work: no call is
\* in progress and no task is in flight.
Quiescent ==
    /\ \A t \in Threads : pc[t] = "idle"
    /\ \A k \in Slots : tasks[k].pc \in {"destroyed", "done"}

\* Queue::setCapacity: mCapacity = std::max<Index32>(1, n).
SetCapacity(n) ==
    /\ Quiescent
    /\ mCapacity' = Max(1, n)
    /\ UNCHANGED << useTBB, mTimeout, mNumTasks, mNextId, mStatus, tasks >>
    /\ UNCHANGED << clientVars, pollVars, notifierVars >>

\* Queue::setTimeout: mTimeout = sec.
SetTimeout(sec) ==
    /\ Quiescent
    /\ mTimeout' = sec
    /\ UNCHANGED << useTBB, mCapacity, mNumTasks, mNextId, mStatus, tasks >>
    /\ UNCHANGED << clientVars, pollVars, notifierVars >>

\* ------------------------------------------------------------------- Next
\* A status() call that is about to return touches nothing shared any more:
\* its return is taken before any other step.
NoAnswerPending == \A t \in Threads : pc[t] # "statusReturn"

Next ==
    \/ \E t \in Threads : Status_Return(t)
    \/ NoAnswerPending /\ \E t \in Threads : WriteGrid(t)
    \/ NoAnswerPending /\ \E t \in Threads : WriteGridVec_IncId(t)
    \/ NoAnswerPending /\ \E t \in Threads : Enqueue_Check(t)
    \/ NoAnswerPending /\ \E t \in Threads : Enqueue_Poll(t)
    \/ NoAnswerPending /\ \E t \in Threads : Enqueue_Admit(t)
    \/ NoAnswerPending /\ \E t \in Threads : Enqueue_Increment(t)
    \/ NoAnswerPending /\ \E k \in Slots : Task_Execute(k)
    \/ NoAnswerPending /\ \E k \in Slots : Task_Lock(k)
    \/ NoAnswerPending /\ \E k \in Slots : Task_Invoke(k)
    \/ NoAnswerPending /\ \E k \in Slots : Task_Unlock(k)
    \/ NoAnswerPending /\ \E k \in Slots : Task_Erase(k)
    \/ NoAnswerPending /\ \E k \in Slots : Task_Decrement(k)
    \/ NoAnswerPending /\ \E t \in Threads, id \in TaskIds : Status_Find(t, id)
    \/ NoAnswerPending /\ \E t \in Threads : Status_Erase(t)
    \/ NoAnswerPending /\ \E k \in Slots, id \in TaskIds : Observer_Status(k, id)
    \/ NoAnswerPending /\ AddNotifier
    \/ NoAnswerPending /\ \E id \in SubIds : RemoveNotifier(id)
    \/ NoAnswerPending /\ ClearNotifiers
    \/ NoAnswerPending /\ \E n \in CapacityArgs : SetCapacity(n)
    \/ NoAnswerPending /\ \E sec \in TimeoutArgs : SetTimeout(sec)

Spec == Init /\ [][Next]_vars

\* ----------------------------------------------------- batches of grids
MaxGrids == 2
GridCounts == 0 .. MaxGrids

\* writeGridVec called with batches of every size, and the life of the
\* tasks it admits.
NextBatch ==
    \/ \E t \in Threads, n \in GridCounts : WriteGridVec_ReadId(t, n)
    \/ \E t \in Threads : WriteGridVec_IncId(t)
    \/ \E t \in Threads : Enqueue_Check(t)
    \/ \E t \in Threads : Enqueue_Poll(t)
    \/ \E t \in Threads : Enqueue_Admit(t)
    \/ \E t \in Threads : Enqueue_Increment(t)
    \/ \E k \in Slots : Task_Execute(k)
    \/ \E k \in Slots : Task_Lock(k)
    \/ \E k \in Slots : Task_Invoke(k)
    \/ \E k \in Slots : Task_Unlock(k)
    \/ \E k \in Slots : Task_Erase(k)
    \/ \E k \in Slots : Task_Decrement(k)
    \/ AddNotifier

SpecBatch == Init /\ [][NextBatch]_vars

\* ------------------------------------------- observers that call back
\* Submissions, completions and observers that call the subscription
\* operations of the queue from within their invocation.
NextReentrant ==
    \/ \E t \in Threads : WriteGrid(t)
    \/ \E t \in Threads : WriteGridVec_IncId(t)
    \/ \E t \in Threads : Enqueue_Check(t)
    \/ \E t \in Threads : Enqueue_Poll(t)
    \/ \E t \in Threads : Enqueue_Admit(t)
    \/ \E t \in Threads : Enqueue_Increment(t)
    \/ \E k \in Slots : Task_Execute(k)
    \/ \E k \in Slots : Task_Lock(k)
    \/ \E k \in Slots : Task_Invoke(k)
    \/ \E k \in Slots : Task_Unlock(k)
    \/ \E k \in Slots : Task_Erase(k)
    \/ \E k \in Slots : Task_Decrement(k)
    \/ \E k \in Slots, op \in NestedOps : Observer_Nested(k, op)
    \/ AddNotifier

SpecReentrant == Init /\ [][NextReentrant]_vars

\* --------------------------------------------- observers that submit
\* Submissions by clients and by observers from within their invocation.
NextNested ==
    \/ \E t \in Threads : Free(t) /\ WriteGrid(t)
    \/ \E t \in Threads : WriteGridVec_IncId(t)
    \/ \E t \in Threads : Enqueue_Check(t)
    \/ \E t \in Threads : Enqueue_Poll(t)
    \/ \E t \in Threads : Enqueue_Admit(t)
    \/ \E t \in Threads : Enqueue_Increment(t)
    \/ \E k \in Slots : Task_Execute(k)
    \/ \E k \in Slots : Task_Lock(k)
    \/ \E k \in Slots : Task_Invoke(k)
    \/ \E k \in Slots : Task_Unlock(k)
    \/ \E k \in Slots : Task_Erase(k)
    \/ \E k \in Slots : Task_Decrement(k)
    \/ \E k \in Slots, t \in Threads : Observer_Submit(k, t)
    \/ \E k \in Slots : Observer_SubmitReturn(k)
    \/ AddNotifier

SpecNested == Init /\ [][NextNested]_vars

\* ------------------------------------------------ the life of the queue
\* Submissions, subscriptions, completions and the destruction of the queue.
\* After the destructor was called the client makes no call.
NextLife ==
    \/ Alive /\ \E t \in Threads : WriteGrid(t)
    \/ \E t \in Threads : WriteGridVec_IncId(t)
    \/ \E t \in Threads : Enqueue_Check(t)
    \/ \E t \in Threads : Enqueue_Poll(t)
    \/ \E t \in Threads : Enqueue_Admit(t)
    \/ \E t \in Threads : Enqueue_Increment(t)
    \/ \E k \in Slots : Task_Execute(k)
    \/ \E k \in Slots : Task_Lock(k)
    \/ \E k \in Slots : Task_Invoke(k)
    \/ \E k \in Slots : Task_Unlock(k)
    \/ \E k \in Slots : Task_Erase(k)
    \/ \E k \in Slots : Task_Decrement(k)
    \/ Alive /\ AddNotifier
    \/ \E t \in Threads : Dtor_Enter(t)
    \/ \E t \in Threads : Dtor_Return(t)

\* The steps of task k: OutputTask::execute and the completion handler.
TaskStep(k) ==
    /\ k \in Slots
    /\ \/ Task_Execute(k)
       \/ Task_Lock(k)
       \/ Task_Invoke(k)
       \/ Task_Unlock(k)
       \/ Task_Erase(k)
       \/ Task_Decrement(k)

\* The execution backend is fair and every archive write returns or throws:
\* a task that can take a step takes it (tbb::task::enqueue runs every task
\* it was given; the fallback build runs execute() in the caller); and the
\* destructor's loop evaluates its condition every 500 ms.
SpecLife ==
    /\ Init
    /\ [][NextLife]_vars
    /\ \A k \in 1 .. MaxTasks : WF_vars(TaskStep(k))
    /\ \A t \in Threads : WF_vars(Dtor_Return(t))

\* ------------------------------------------------------------- type check
TaskPcs == { "constructed", "destroyed", "queued", "statusSet", "locked",
             "unlocked", "erased", "done", "nested", "submitting" }
ThreadPcs == { "idle", "incId", "check", "sleep", "setup", "executing",
               "incr", "statusFound", "statusReturn", "dtorWait", "dtorDone" }

TypeOK ==
    /\ useTBB \in BOOLEAN
    /\ mTimeout \in TimeoutArgs
    /\ mCapacity \in CapacityArgs
    /\ mNumTasks \in Int
    /\ mNextId \in 1 .. MaxTasks + 1
    /\ mStatus \in [TaskIds -> Stored]
    /\ mNotifiers \subseteq SubIds
    /\ mNextNotifierId \in 1 .. MaxSubs + 1
    /\ mNotifierMutex \in 0 .. MaxTasks
    /\ Len(tasks) <= MaxTasks
    /\ \A k \in Slots : tasks[k].pc \in TaskPcs /\ tasks[k].id \in TaskIds
    /\ pc \in [Threads -> ThreadPcs]
    /\ removed \subseteq SubIds
\* ------------------------------------------------------ derived quantities
\* Task k has been handed to the execution backend and its completion
\* handler has not finished.
Handed(k) == tasks[k].pc \in {"queued", "statusSet", "locked", "unlocked", "erased"}
InFlight == Cardinality({ k \in Slots : Handed(k) })
\* Tasks handed to the backend so far, and tasks whose handler has finished.
Admitted == Cardinality({ k \in Slots : tasks[k].pc \notin {"constructed", "destroyed"} })
Finished == Cardinality({ k \in Slots : tasks[k].pc = "done" })
\* No status(id) call is between its find and its erase.
NoPollInProgress(id) == \A t \in Threads : pc[t] = "statusFound" => pollId[t] # id

RECURSIVE Asc(_)
Asc(S) ==
    IF S = {} THEN << >>
    ELSE LET m == CHOOSE x \in S : \A y \in S : x <= y
         IN  << m >> \o Asc(S \ {m})
IsPrefix(a, b) == Len(a) <= Len(b) /\ \A i \in 1 .. Len(a) : a[i] = b[i]
\* The subscription ids task k's fan-out has invoked so far, in order.
InvIds(k) == [ i \in 1 .. Len(tasks[k].inv) |-> tasks[k].inv[i][1] ]

\* ---------------------------------------------------------------- claims

\* C1: with the capacity fixed, the number of tasks handed to the execution
\* backend whose completion handler has not finished never exceeds the
\* capacity, whatever the interleaving of concurrent writeGridVec calls.
C1_InFlightWithinCapacity == InFlight <= mCapacity

\* C2: the in-flight counter mNumTasks is never negative, in either build.
C2_CounterNeverNegative == mNumTasks >= 0

\* C3: size() equals the number of tasks admitted so far minus the number of
\* tasks whose completion has been handled, in every state (also while an
\* observer is running).
C3_SizeIsAdmittedMinusCompleted == size = Admitted - Finished

\* C4: every admitted task writes a terminal value to the status map exactly
\* once, from its own completion callback; the value is SUCCEEDED or FAILED;
\* and no terminal value is in the map that a task of that id did not write.
C4_TerminalWrittenOnceByOwnCallback ==
    /\ \A k \in Slots :
        /\ tasks[k].nTerm <= 1
        /\ tasks[k].pc \in {"constructed", "destroyed", "queued"} => tasks[k].nTerm = 0
        /\ tasks[k].pc \in {"statusSet", "locked", "unlocked", "erased", "done"} =>
              tasks[k].nTerm = 1 /\ tasks[k].status \in Terminal
    /\ \A id \in TaskIds :
        mStatus[id] \in Terminal =>
            \E k \in Slots : /\ tasks[k].id = id
                             /\ tasks[k].nTerm = 1
                             /\ tasks[k].status = mStatus[id]
\* A task whose write failed has finished, having stored FAILED once.
C4_Witness ==
    \E k \in Slots : tasks[k].pc = "done" /\ tasks[k].nTerm = 1 /\ tasks[k].status = "FAILED"

\* C5: every observer invocation carries SUCCEEDED or FAILED (never PENDING
\* or UNKNOWN), and a task's notification sink fires at most once.
C5_ObserversGetTerminalStatusOnce ==
    \A k \in Slots :
        /\ tasks[k].fired <= 1
        /\ \A i \in 1 .. Len(tasks[k].inv) : tasks[k].inv[i][2] \in Terminal
\* An observer is running for a task whose write failed.
C5_Witness ==
    \E k \in Slots : /\ tasks[k].pc = "locked"
                     /\ tasks[k].fired = 1
                     /\ Len(tasks[k].inv) >= 1
                     /\ tasks[k].inv[1][2] = "FAILED"

C8_FanOutAscendingExactlyOnce ==
    /\ [](\A k \in Slots :
            tasks[k].pc = "locked" =>
                /\ mNotifiers = tasks[k].snap
                /\ IsPrefix(InvIds(k), Asc(tasks[k].snap))
                /\ \A i \in 1 .. Len(tasks[k].inv) :
                      tasks[k].inv[i][2] = tasks[k].status)
    /\ [][\A k \in Slots :
            (tasks[k].pc = "locked" /\ tasks'[k].pc # "locked") =>
                InvIds(k) = Asc(tasks[k].snap)]_vars
\* The second of two registered observers is running.
C8_Witness ==
    \E k \in Slots : /\ tasks[k].pc = "locked"
                     /\ tasks[k].snap = {1, 2}
                     /\ InvIds(k) = << 1, 2 >>

\* C9: once removeNotifier(s) or clearNotifiers() has returned, the removed
\* observer is never invoked again, for any task.
C9_RemovedObserverNeverInvoked ==
    [][\A k \in Slots :
         \A i \in 1 .. Len(tasks'[k].inv) :
             i > Len(tasks[k].inv) => tasks'[k].inv[i][1] \notin removed]_vars
\* After subscription 1 was removed, a fan-out invokes subscription 2.
C9_Witness ==
    \E k \in Slots : /\ 1 \in removed
                     /\ tasks[k].pc = "locked"
                     /\ InvIds(k) = << 2 >>

\* C10: a writeGridVec whose first capacity check finds the in-flight count
\* below the capacity is admitted at that check: it does not sleep, and its
\* next step hands the task to the backend.  And while the submissions made
\* so far do not exceed the capacity, no caller is in the sleep-and-repoll
\* loop.
C10_AdmittedOnFirstCheck ==
    /\ [](Len(tasks) <= mCapacity =>
             \A t \in Threads : pc[t] # "sleep" /\ ticks[t] = 0)
    /\ [][\A t \in Threads :
           /\ (pc[t] = "check" /\ mNumTasks < mCapacity /\ pc'[t] # "check") =>
                  (pc'[t] = "setup" /\ ticks'[t] = 0)
           /\ (pc[t] = "setup" /\ ticks[t] = 0 /\ pc'[t] # "setup") =>
                  /\ pc'[t] \in {"incr", "executing"}
                  /\ tasks'[cur[t]].pc = "queued"]_vars
\* With one task in flight and counted, a second is admitted without a sleep.
C10_Witness ==
    \E t \in Threads : /\ pc[t] = "setup"
                       /\ ticks[t] = 0
                       /\ mNumTasks = 1
                       /\ InFlight = 1

\* Identifiers of the tasks that were handed to the backend: the values
\* writeGridVec returns to its callers.
ReturnedIds == { tasks[k].id : k \in { j \in Slots : tasks[j].pc \notin {"constructed", "destroyed"} } }

\* C11: a writeGridVec that finds the in-flight count at (or above) the
\* capacity is not admitted at that check and is never admitted by a poll that
\* finds the count still at the capacity; the wait ends in one of two ways, an
\* admission at a poll that finds the count below the capacity (the count
\* only falls by the completion of a task, the capacity does not change
\* meanwhile) or the time-limit RuntimeError; and the wait is bounded.
C11_BlockedUntilFreedOrTimeout ==
    /\ [](\A t \in Threads : pc[t] = "sleep" => ticks[t] <= 2 * mTimeout + 1)
    /\ [][\A t \in Threads :
           /\ (pc[t] = "check" /\ mNumTasks >= mCapacity /\ pc'[t] # "check") =>
                  pc'[t] = "sleep"
           /\ (pc[t] = "check" /\ pc'[t] = "sleep") => mNumTasks >= mCapacity
           /\ pc[t] = "sleep" =>
                  /\ pc'[t] \in {"sleep", "setup", "idle"}
                  /\ mCapacity' = mCapacity
                  /\ pc'[t] = "setup" => mNumTasks < mCapacity
                  /\ pc'[t] = "idle" => tasks'[cur[t]].pc = "destroyed"
                  /\ mNumTasks' < mNumTasks =>
                         \E k \in Slots : /\ tasks[k].completed
                                          /\ tasks[k].pc # "done"
                                          /\ tasks'[k].pc = "done"]_vars
\* A caller that had to wait has been admitted at a later poll.
C11_Witness ==
    \E t \in Threads : pc[t] = "setup" /\ ticks[t] > 0 /\ mNumTasks < mCapacity

\* C12: with timeout T seconds a caller that keeps finding the queue full
\* fails at the first poll at which the elapsed wait exceeds T seconds, so no
\* caller is still waiting after a poll made later than T seconds (2T half
\* seconds) after its start; and the failure leaves size() as it was.
C12_TimeoutAtFirstPollPastT ==
    /\ [](\A t \in Threads : pc[t] = "sleep" => ticks[t] <= 2 * mTimeout)
    /\ [][\A t \in Threads : (pc[t] = "sleep" /\ pc'[t] = "idle") =>
              Max(0, mNumTasks') = Max(0, mNumTasks)]_vars

\* C13: a writeGridVec that fails with the time-limit error consumes no
\* identifier: when it fails mNextId is again the identifier it had taken
\* (if no other call took one since), and the identifiers returned by the
\* successful calls are 1, 2, ... without a gap.
C13_FailedSubmitConsumesNoId ==
    /\ []((\A t \in Threads : pc[t] = "idle") =>
             ReturnedIds = 1 .. Cardinality(ReturnedIds))
    /\ [][\A t \in Threads :
           (pc[t] = "sleep" /\ pc'[t] = "idle" /\ mNextId = taskId[t] + 1) =>
               mNextId' = taskId[t]]_vars

\* C14: a writeGridVec that fails with the time-limit error has changed
\* neither the status map (no PENDING entry for its task), nor the notifier
\* map, nor mNumTasks, and no observer was invoked for its task; afterwards
\* the queue works as before: a call that finds the count below the capacity
\* is admitted.
C14_FailedSubmitLeavesQueueUntouched ==
    /\ [](\A k \in Slots :
            tasks[k].pc = "destroyed" =>
                /\ tasks[k].fired = 0
                /\ tasks[k].nTerm = 0
                /\ tasks[k].inv = << >>
                /\ ~tasks[k].didNotify)
    /\ [][\A t \in Threads :
           /\ ( /\ pc[t] \in {"check", "sleep"}
                /\ pc'[t] \in {"sleep", "idle"}
                /\ (pc'[t] # pc[t] \/ ticks'[t] # ticks[t]) ) =>
                  /\ UNCHANGED << mStatus, mNotifiers, mNextNotifierId, mNumTasks >>
                  /\ \A k \in Slots : /\ tasks'[k].inv = tasks[k].inv
                                      /\ tasks'[k].fired = tasks[k].fired
           /\ ( /\ \E k \in Slots : tasks[k].pc = "destroyed"
                /\ pc[t] = "check"
                /\ mNumTasks < mCapacity
                /\ pc'[t] # "check" ) => pc'[t] = "setup"]_vars
\* After a failed call, a later call has handed its task to the backend and
\* is about to count it.
C14_Witness ==
    /\ Len(tasks) = 2
    /\ tasks[1].pc = "destroyed"
    /\ tasks[2].pc = "queued"
    /\ \E t \in Threads : cur[t] = 2 /\ pc[t] = "incr"

\* C15: when mArchive->write throws (a std::exception or anything else)
\* execute goes on to its notification with FAILED, and with SUCCEEDED when
\* the write returned: that value is the one stored, every registered
\* observer is invoked with (task id, that value) once, in order, and none is
\* left out when the fan-out ends.
C15_WriteErrorBecomesFailed ==
    /\ [](\A k \in Slots :
            tasks[k].pc \in {"statusSet", "locked"} =>
                /\ tasks[k].outcome \in WriteOutcomes
                /\ tasks[k].outcome = "returned" => tasks[k].status = "SUCCEEDED"
                /\ tasks[k].outcome # "returned" => tasks[k].status = "FAILED"
                /\ tasks[k].fired = 1
                /\ IsPrefix(InvIds(k), Asc(tasks[k].snap))
                /\ \A i \in 1 .. Len(tasks[k].inv) :
                      tasks[k].inv[i][2] = tasks[k].status)
    /\ [][\A k \in Slots :
           /\ (tasks[k].pc = "queued" /\ tasks'[k].pc # "queued") =>
                  /\ tasks'[k].pc = "statusSet"
                  /\ tasks'[k].nTerm = 1
                  /\ mStatus'[tasks[k].id] = tasks'[k].status
           /\ (tasks[k].pc = "locked" /\ tasks'[k].pc # "locked") =>
                  Len(tasks[k].inv) = Cardinality(tasks[k].snap)]_vars
\* The write threw something that is not a std::exception and the only
\* registered observer has been told FAILED.
C15_Witness ==
    \E k \in Slots : /\ tasks[k].pc = "locked"
                     /\ tasks[k].outcome = "other_throw"
                     /\ tasks[k].snap = {1}
                     /\ tasks[k].inv = << << 1, "FAILED" >> >>

\* C16: capacity() is at least 1 in every reachable state, after
\* Queue(capacity) with any argument and after any setCapacity(n).
C16_CapacityAtLeastOne == mCapacity >= 1

\* C17: with timeout 0 a caller that finds the queue full at its first check
\* fails without a further wait: no caller comes back from a sleep to check
\* the capacity again, and none is admitted after a sleep.
C17_ZeroTimeoutSingleCheck ==
    mTimeout = 0 => \A t \in Threads : ticks[t] = 0

\* C18: status(id) for an id that has no entry in the status map answers
\* UNKNOWN and changes nothing in the queue; an id that no successful
\* writeGridVec has returned has no entry.
C18_NoEntryAnswersUnknown ==
    /\ [](\A id \in TaskIds :
            (\A k \in Slots : tasks[k].id = id =>
                              tasks[k].pc \in {"constructed", "destroyed"}) =>
                mStatus[id] = "NONE")
    /\ [][\A t \in Threads, id \in TaskIds :
           ( /\ pc[t] = "idle"
             /\ pc'[t] # "idle"
             /\ pollId'[t] = id
             /\ mStatus[id] = "NONE" ) =>
               /\ pc'[t] = "statusReturn"
               /\ pollVal'[t] = "UNKNOWN"
               /\ UNCHANGED << mStatus, mNumTasks, mNextId, mNotifiers,
                               mNextNotifierId, mNotifierMutex, mCapacity,
                               mTimeout >>]_vars
\* status(id) is about to answer UNKNOWN for a task whose entry its own
\* fan-out removed.
C18_Witness ==
    \E t \in Threads, k \in Slots :
        /\ pc[t] = "statusReturn"
        /\ pollVal[t] = "UNKNOWN"
        /\ pollId[t] = tasks[k].id
        /\ tasks[k].pc = "done"
        /\ tasks[k].didNotify

\* C19: status() never waits: a caller can always start it, also while a
\* fan-out holds mNotifierMutex and while another caller sleeps in enqueue;
\* an observer that is running can call it; and once started it can always
\* take its one remaining step (the erase, or the return).
C19_StatusNeverBlocks ==
    /\ \A t \in Threads, id \in TaskIds : Ready(t) => ENABLED Status_Find(t, id)
    /\ \A t \in Threads : pc[t] = "statusFound" => ENABLED Status_Erase(t)
    /\ \A t \in Threads : pc[t] = "statusReturn" => ENABLED Status_Return(t)
    /\ \A k \in Slots, id \in TaskIds :
          (tasks[k].pc = "locked" /\ tasks[k].it # 0) => ENABLED Observer_Status(k, id)
\* A status() call is between its find and its erase while a fan-out holds
\* the notifier guard and another caller sleeps in enqueue.
C19_Witness ==
    \E t \in Threads, u \in Threads :
        /\ pc[t] = "statusFound"
        /\ pc[u] = "sleep"
        /\ mNotifierMutex # 0

\* C20: writeGridVec is the only operation that makes its caller wait:
\* addNotifier, removeNotifier and clearNotifiers can always proceed, and a
\* writeGridVec never waits for the task it submits to complete.
C20_OnlySubmitWaits ==
    /\ SomeIdle =>
          /\ ENABLED ClearNotifiers
          /\ \A id \in SubIds : ENABLED RemoveNotifier(id)
          /\ mNextNotifierId <= MaxSubs => ENABLED AddNotifier
    /\ \A t \in Threads : pc[t] = "statusFound" => ENABLED Status_Erase(t)
    /\ \A t \in Threads : pc[t] # "executing"

\* C21: an observer that calls addNotifier, removeNotifier or clearNotifiers
\* from within its invocation deadlocks: the fan-out holds mNotifierMutex for
\* its whole duration and the nested call changes nothing; once the call has
\* been made the task takes no further step (no later observer is invoked,
\* mNumTasks is not decremented for it), the mutex stays with it, and no
\* other fan-out and no addNotifier can start.
C21_NestedSubscriptionCallDeadlocks ==
    /\ [](\A k \in Slots : tasks[k].pc \in {"locked", "nested"} => mNotifierMutex = k)
    /\ [](\A k \in Slots :
            tasks[k].pc = "nested" =>
                /\ ~ENABLED TaskStep(k)
                /\ \A j \in Slots : ~ENABLED Task_Lock(j)
                /\ ~ENABLED AddNotifier)
    /\ [][\A k \in Slots :
           /\ tasks[k].pc = "nested" =>
                 /\ tasks'[k] = tasks[k]
                 /\ mNotifierMutex' = k
           /\ tasks[k].pc \in {"locked", "nested"} =>
                 UNCHANGED << mNotifiers, mNextNotifierId >>]_vars
\* The first of two observers has made the call: the second was never
\* invoked, and the task is still counted after its writeGridVec returned.
C21_Witness ==
    \E k \in Slots :
        /\ tasks[k].pc = "nested"
        /\ tasks[k].snap = {1, 2}
        /\ InvIds(k) = << 1 >>
        /\ mNotifiers = {1, 2}
        /\ mNumTasks = 1
        /\ \A t \in Threads : pc[t] = "idle"

\* C22: the destructor returns only when every admitted task has finished
\* its completion handler: each is done, has stored its one terminal status
\* and was counted out (mNumTasks is 0), and no fan-out holds mNotifierMutex.
C22_DestructorReturnsAfterAllAdmittedFinish ==
    \A t \in Threads :
        pc[t] = "dtorDone" =>
            /\ \A k \in Slots :
                  /\ tasks[k].pc \in {"destroyed", "done"}
                  /\ tasks[k].pc = "done" => tasks[k].nTerm = 1
            /\ mNumTasks = 0
            /\ mNotifierMutex = 0
\* The destructor has returned after two admitted tasks finished.
C22_Witness ==
    /\ \E t \in Threads : pc[t] = "dtorDone"
    /\ Finished = 2

\* C23: the destructor terminates if and only if every admitted task
\* completes: with a fair backend whose writes return or throw, a destructor
\* that was called eventually returns; and as long as an admitted task has
\* not finished, no step of the destructor returns.
C23_DestructorTerminatesIffTasksComplete ==
    /\ \A t \in Threads : (pc[t] = "dtorWait") ~> (pc[t] = "dtorDone")
    /\ [][\A t \in Threads :
           (pc[t] = "dtorWait" /\ \E k \in Slots : Handed(k)) =>
               pc'[t] = "dtorWait"]_vars
\* The destructor is waiting while an admitted task has not started and
\* another is inside its fan-out.
C23_Witness ==
    \E t \in Threads, j \in Slots, k \in Slots :
        /\ pc[t] = "dtorWait"
        /\ tasks[j].pc = "queued"
        /\ tasks[k].pc = "locked"

\* C24: with a fair backend whose writes return or throw, every admitted
\* task is eventually done; a task that is done ran its completion handler
\* exactly once, with a terminal status; the handler runs from the queued
\* task, with the outcome of its write (SUCCEEDED when it returned, FAILED
\* when it threw); and a writeGridVec that fails with the time-limit error
\* changes no other task, no status entry and not mNumTasks.
C24_AdmittedTaskRunsToCompletion ==
    /\ \A k \in 1 .. MaxTasks :
          (k \in Slots /\ tasks[k].pc = "queued") ~> (k \in Slots /\ tasks[k].pc = "done")
    /\ [](\A k \in Slots :
            tasks[k].pc = "done" =>
                /\ tasks[k].status \in Terminal
                /\ tasks[k].fired = 1
                /\ tasks[k].nTerm = 1)
    /\ [][\A k \in Slots :
           tasks'[k].fired # tasks[k].fired =>
               /\ tasks[k].pc = "queued"
               /\ tasks'[k].fired = 1
               /\ tasks'[k].outcome \in WriteOutcomes
               /\ tasks'[k].status = IF tasks'[k].outcome = "returned"
                                     THEN "SUCCEEDED" ELSE "FAILED"]_vars
    /\ [][\A t \in Threads :
           (pc[t] = "sleep" /\ pc'[t] = "idle") =>
               /\ \A k \in Slots : k # cur[t] => tasks'[k] = tasks[k]
               /\ UNCHANGED << mStatus, mNumTasks >>]_vars
\* A later submission has failed with the time-limit error and the task
\* admitted before it is done, its write having thrown.
C24_Witness ==
    \E j \in Slots, k \in Slots :
        /\ j < k
        /\ tasks[j].pc = "done"
        /\ tasks[j].status = "FAILED"
        /\ tasks[k].pc = "destroyed"

\* C25: task identifiers and subscription identifiers come from two
\* independent counters that start at 1 and only increase: neither counter
\* ever goes down, every mNextId++ of a writeGridVec advances mNextId by one,
\* every addNotifier advances mNextNotifierId by one and registers the value
\* it had, the first task constructed has identifier 1 and the first
\* subscription is 1, and a step that changes one counter leaves the other.
C25_TwoIndependentCounters ==
    /\ [](Len(tasks) >= 1 => tasks[1].id = 1)
    /\ [](mNotifiers # {} \/ removed # {} => 1 \in mNotifiers \cup removed)
    /\ [][/\ mNextId' >= mNextId
          /\ mNextNotifierId' >= mNextNotifierId
          /\ mNextId' # mNextId => mNextNotifierId' = mNextNotifierId
          /\ mNextNotifierId' # mNextNotifierId =>
                /\ mNextNotifierId' = mNextNotifierId + 1
                /\ mNotifiers' = mNotifiers \cup {mNextNotifierId}
          /\ \A t \in Threads :
                (pc[t] = "incId" /\ pc'[t] = "check") =>
                    mNextId' = mNextId + 1]_vars

\* C26: in the fallback build, when writeGridVec returns, its task has
\* completed (its handler has finished and stored one terminal status), the
\* entry of the returned identifier is not PENDING, and size() is 0.
C26_FallbackSubmitReturnsCompleted ==
    [][\A t \in Threads :
        (~useTBB /\ pc[t] = "incr" /\ pc'[t] = "idle") =>
            /\ tasks[cur[t]].pc = "done"
            /\ tasks[cur[t]].nTerm = 1
            /\ mStatus'[taskId[t]] # "PENDING"
            /\ Max(0, mNumTasks') = 0]_vars

\* C28: a writeGridVec of any number of grids admits exactly one task: the
\* call constructs one task that holds all its grids, takes one identifier
\* (mNextId becomes the identifier plus one), counts one unit of capacity
\* when it returns (++mNumTasks, once), and its task stores at most one
\* terminal status and runs its completion handler at most once, exactly
\* once when it is done.
C28_BatchAdmitsOneTask ==
    /\ [](\A k \in Slots :
            /\ tasks[k].fired <= 1
            /\ tasks[k].nTerm <= 1
            /\ tasks[k].pc = "done" => tasks[k].fired = 1 /\ tasks[k].nTerm = 1)
    /\ [][\A t \in Threads :
           /\ (pc[t] = "incId" /\ pc'[t] = "check") =>
                 /\ Len(tasks') = Len(tasks) + 1
                 /\ tasks'[Len(tasks')].mGrids = grids[t]
                 /\ tasks'[Len(tasks')].id = taskId[t]
                 /\ mNextId' = taskId[t] + 1
           /\ (pc[t] = "incr" /\ pc'[t] = "idle") =>
                 /\ mNumTasks' = mNumTasks + 1
                 /\ tasks' = tasks]_vars
\* A batch of two grids was submitted by the only call so far: one task,
\* one identifier taken, the task done and counted out.
C28_Witness ==
    /\ Len(tasks) = 1
    /\ tasks[1].mGrids = 2
    /\ tasks[1].pc = "done"
    /\ mNextId = 2
    /\ mNumTasks = 0
    /\ \A t \in Threads : pc[t] = "idle"

\* C29: the stored value of every identifier follows absent -> PENDING ->
\* terminal -> absent: a task that can run has its PENDING entry, the only
\* changes of an entry are the installation of PENDING for an identifier no
\* task was admitted with before, PENDING to a terminal value, and a
\* terminal value to absent; UNKNOWN is never stored.
C29_StatusEntryLifecycle ==
    /\ [](\A id \in TaskIds : mStatus[id] # "UNKNOWN")
    /\ [](\A k \in Slots : tasks[k].pc = "queued" => mStatus[tasks[k].id] = "PENDING")
    /\ [][\A id \in TaskIds :
           mStatus'[id] # mStatus[id] =>
              \/ /\ mStatus[id] = "NONE"
                 /\ mStatus'[id] = "PENDING"
                 /\ \A k \in Slots : tasks[k].id = id =>
                                     tasks[k].pc \in {"constructed", "destroyed"}
              \/ mStatus[id] = "PENDING" /\ mStatus'[id] \in Terminal
              \/ mStatus[id] \in Terminal /\ mStatus'[id] = "NONE"]_vars

\* C30: status() holds the guard of the status map from its find to its
\* erase, in both builds: while a caller is between the two with a valid
\* accessor, no setStatus and no erase of a completion handler changes the
\* entry it found; and a completion handler never changes the status map
\* while it holds mNotifierMutex.
C30_StatusMapAlwaysGuarded ==
    /\ [][\A t \in Threads :
           ( /\ pc[t] = "statusFound"
             /\ accValid[t]
             /\ mStatus'[pollId[t]] # mStatus[pollId[t]] ) =>
                \A k \in Slots : tasks'[k].pc = tasks[k].pc]_vars
    /\ [][\A k \in Slots :
           (tasks'[k].pc # tasks[k].pc /\ mStatus' # mStatus) =>
               mNotifierMutex # k /\ mNotifierMutex' # k]_vars

\* C31: status(id) on an entry that is PENDING answers PENDING and changes
\* neither the entry nor mNumTasks nor the notifier map; and as long as the
\* completion handler of an admitted task has not stored its terminal status
\* (the task is queued), every status() of its identifier answers PENDING.
C31_PendingPollLeavesEntry ==
    /\ [][\A t \in Threads, id \in TaskIds :
           ( /\ pc[t] = "idle"
             /\ pc'[t] # "idle"
             /\ pollId'[t] = id
             /\ mStatus[id] = "PENDING" ) =>
               /\ pc'[t] = "statusReturn"
               /\ pollVal'[t] = "PENDING"
               /\ UNCHANGED << mStatus, mNumTasks, mNotifiers, mNextNotifierId >>]_vars
    /\ [][\A t \in Threads, k \in Slots :
           ( /\ pc[t] = "idle"
             /\ pc'[t] # "idle"
             /\ pollId'[t] = tasks[k].id
             /\ tasks[k].pc = "queued" ) =>
               /\ pc'[t] = "statusReturn"
               /\ pollVal'[t] = "PENDING"]_vars

\* C32: a step of a task's completion handler (from the write of the status
\* to --mNumTasks) changes in the queue only the status entry of the task's
\* own identifier and mNumTasks, which it decrements by one at most: the
\* capacity, the timeout, both identifier counters, the notifier map and the
\* entries of all other identifiers stay as they are.
C32_HandlerTouchesOnlyOwnEntryAndCount ==
    [][\A k \in Slots :
        ( /\ Handed(k)
          /\ tasks'[k].pc # tasks[k].pc \/ tasks'[k].it # tasks[k].it ) =>
            /\ UNCHANGED << mCapacity, mTimeout, mNextId, mNextNotifierId, mNotifiers >>
            /\ \A id \in TaskIds : id # tasks[k].id => mStatus'[id] = mStatus[id]
            /\ mNumTasks' \in {mNumTasks, mNumTasks - 1}]_vars
\* A handler that notified has finished (its entry is erased) and the entry
\* of another task is still there.
C32_Witness ==
    \E j \in Slots, k \in Slots :
        /\ tasks[k].pc = "done"
        /\ tasks[k].didNotify
        /\ tasks[j].id # tasks[k].id
        /\ mStatus[tasks[k].id] = "NONE"
        /\ mStatus[tasks[j].id] = "PENDING"

\* C33: removeNotifier(id) for an id that is not registered (never issued,
\* removed before, or cleared) can be called and changes nothing at all in
\* the queue; and a removeNotifier(id) never leaves the notifier map other
\* than without id: it removes no other subscription.
C33_UnsubscribeAbsentIsNoOp ==
    \A id \in SubIds :
        (SomeIdle /\ mNotifierMutex = 0) =>
            /\ ENABLED RemoveNotifier(id)
            /\ id \notin mNotifiers => ~ENABLED (RemoveNotifier(id) /\ vars' # vars)
            /\ ~ENABLED (RemoveNotifier(id) /\ mNotifiers' # mNotifiers \ {id})
\* Subscription 1 was removed, subscription 2 is registered, and a caller is
\* free to call removeNotifier(1) again.
C33_Witness ==
    /\ removed = {1}
    /\ mNotifiers = {2}
    /\ SomeIdle
    /\ mNotifierMutex = 0

\* C34: no two admitted tasks have the same identifier (so no two
\* writeGridVec calls return the same identifier and no two admitted tasks
\* share an entry of the status map), whatever the interleaving of the calls.
C34_ConcurrentSubmitsGetDistinctIds ==
    \A j \in Slots, k \in Slots :
        ( /\ j # k
          /\ tasks[j].pc \notin {"constructed", "destroyed"}
          /\ tasks[k].pc \notin {"constructed", "destroyed"} ) =>
            tasks[j].id # tasks[k].id

\* C35: at most one status() call returns the terminal value of a task: no
\* two callers are at the same time past a find that read the terminal
\* status of the same task (each of them returns what it read).
C35_TerminalValueReturnedOnce ==
    \A t \in Threads, u \in Threads :
        (t # u /\ pc[t] = "statusFound" /\ pc[u] = "statusFound") =>
            pollSeen[t] \cap pollSeen[u] = {}

\* C36: a blocked writeGridVec fails with the time-limit error only while
\* the queue is still full: a poll made when mNumTasks is below the capacity
\* admits the caller, also when the time limit has been exceeded by then.
C36_TimeoutOnlyWhileFull ==
    [][\A t \in Threads :
        (pc[t] = "sleep" /\ pc'[t] # "sleep" /\ canEnqueue) =>
            pc'[t] = "setup"]_vars

\* C37: the fan-outs of different tasks never interleave: at most one task
\* is inside its fan-out at a time, and an observer is invoked only for the
\* task that holds mNotifierMutex while no other task is inside a fan-out,
\* so all observers are invoked for one task before any is for another.
C37_FanOutsDoNotInterleave ==
    /\ [](Cardinality({ k \in Slots : tasks[k].pc = "locked" }) <= 1)
    /\ [][\A k \in Slots :
           Len(tasks'[k].inv) > Len(tasks[k].inv) =>
               /\ mNotifierMutex = k
               /\ \A j \in Slots : j # k => tasks[j].inv = << >>]_vars
\* Two tasks have completed concurrently: one is inside its fan-out and has
\* invoked an observer, the other has stored its status and waits for the
\* lock.
C37_Witness ==
    \E j \in Slots, k \in Slots :
        /\ tasks[k].pc = "locked"
        /\ tasks[k].it # 0
        /\ tasks[j].pc = "statusSet"

\* C38: in every reachable state empty() is true exactly when size() is 0.
C38_EmptyIffSizeZero == empty <=> (size = 0)

\* C39: an observer that calls writeGrid from within its invocation does not
\* deadlock, in either build: while the nested call is in progress it can
\* always go on (its next step in writeGridVec or enqueue, or, where the
\* fallback build runs the nested task inside the call, the next step of
\* that task), and when it has returned or thrown the fan-out resumes.
C39_NestedSubmitDoesNotDeadlock ==
    \A k \in Slots :
        tasks[k].pc = "submitting" =>
            \/ ENABLED Observer_SubmitReturn(k)
            \/ ENABLED WriteGridVec_IncId(tasks[k].frame)
            \/ ENABLED Enqueue_Check(tasks[k].frame)
            \/ ENABLED Enqueue_Poll(tasks[k].frame)
            \/ ENABLED Enqueue_Admit(tasks[k].frame)
            \/ ENABLED Enqueue_Increment(tasks[k].frame)
            \/ /\ pc[tasks[k].frame] = "executing"
               /\ ENABLED TaskStep(cur[tasks[k].frame])

\* C40: subscription identifiers are never reused: every addNotifier
\* registers an identifier greater than every identifier registered or
\* removed before, an identifier that was removed or cleared is never
\* registered again, and every identifier handed out is below
\* mNextNotifierId.
C40_SubscriptionIdsNeverReused ==
    /\ [](\A s \in mNotifiers \cup removed : s < mNextNotifierId)
    /\ [](mNotifiers \cap removed = {})
    /\ [][\A s \in mNotifiers' \ mNotifiers :
           /\ s = mNextNotifierId
           /\ \A r \in mNotifiers \cup removed : s > r]_vars
\* Subscription 1 is gone and the addNotifier after it returned 2.
C40_Witness ==
    /\ removed = {1}
    /\ mNotifiers = {2}
    /\ mNextNotifierId = 3

====
